---- MODULE Spec2Model ----
(***************************************************************************)
(* A model of the contact backend (src/server.js and its two earlier       *)
(* variants src/unnamed/part_000 and src/unnamed/part_001): the express    *)
(* middleware chain, the contact handler, the resume-download notifier,    *)
(* the health route, the rate limiter's counters and the pending           *)
(* transporter.sendMail promises.                                          *)
(*                                                                         *)
(* A JSON value of the request body is a record                            *)
(*     [kind, unit, reps, num]                                             *)
(* kind "string": the text is `unit` (a sequence of one-character strings) *)
(* repeated `reps` times, so that a 5000 character message is one record;  *)
(* kind "number": the number `num`; kind "undefined": the field is absent. *)
(***************************************************************************)
EXTENDS Integers, Sequences, FiniteSets, TLC

(***************************************************************************)
(* JSON values as the handler sees them after express.json()               *)
(***************************************************************************)
Undefined == [kind |-> "undefined", unit |-> <<>>, reps |-> 0, num |-> 0]

Str(u) == [kind |-> "string", unit |-> u, reps |-> 1, num |-> 0]

Rep(u, n) == [kind |-> "string", unit |-> u, reps |-> n, num |-> 0]

Num(n) == [kind |-> "number", unit |-> <<>>, reps |-> 0, num |-> n]

NoLength == -1

\* the character U+0060 (a TLA+ string cannot hold it)
Grave == "grave"

\* v.length in JavaScript: the number of characters of a string, undefined
\* (NoLength) for a number or for undefined.
JsLength(v) == IF v.kind = "string" THEN Len(v.unit) * v.reps ELSE NoLength

\* !!v : "" , 0 and undefined are falsy.
Truthy(v) ==
    CASE v.kind = "string" -> JsLength(v) > 0
      [] v.kind = "number" -> v.num # 0
      [] OTHER -> FALSE

\* validator's assertString: anything but a string makes the call throw.
AssertStringThrows(v) == v.kind # "string"

\* a > b where a may be undefined: undefined > n is false.
JsGreater(len, limit) == len # NoLength /\ len > limit

RECURSIVE Flat(_, _)
Flat(u, n) == IF n = 0 THEN <<>> ELSE u \o Flat(u, n - 1)

\* The characters of a string value, written out.
Chars(v) == Flat(v.unit, v.reps)

(***************************************************************************)
(* validator.escape                                                        *)
(***************************************************************************)
\* escape with the apostrophe left out of its replacements
EscapeCharNoApostrophe(c) ==
    CASE c = "&" -> <<"&", "a", "m", "p", ";">>
      [] c = "\"" -> <<"&", "q", "u", "o", "t", ";">>
      [] c = "<" -> <<"&", "l", "t", ";">>
      [] c = ">" -> <<"&", "g", "t", ";">>
      [] c = "/" -> <<"&", "#", "x", "2", "F", ";">>
      [] c = "\\" -> <<"&", "#", "x", "5", "C", ";">>
      [] c = Grave -> <<"&", "#", "9", "6", ";">>
      [] OTHER -> <<c>>

EscapeChar(c) ==
    CASE c = "&" -> <<"&", "a", "m", "p", ";">>
      [] c = "\"" -> <<"&", "q", "u", "o", "t", ";">>
      [] c = "'" -> <<"&", "#", "x", "2", "7", ";">>
      [] c = "<" -> <<"&", "l", "t", ";">>
      [] c = ">" -> <<"&", "g", "t", ";">>
      [] c = "/" -> <<"&", "#", "x", "2", "F", ";">>
      [] c = "\\" -> <<"&", "#", "x", "5", "C", ";">>
      [] c = Grave -> <<"&", "#", "9", "6", ";">>
      [] OTHER -> <<c>>

RECURSIVE EscapeSeq(_)
EscapeSeq(s) == IF s = <<>> THEN <<>> ELSE EscapeChar(Head(s)) \o EscapeSeq(Tail(s))

\* validator.escape(v) for a string v: the replacement is per character, so
\* escaping the repeated unit escapes the whole text.
Escape(v) == [v EXCEPT !.unit = EscapeSeq(v.unit)]

(***************************************************************************)
(* validator.isEmail with its default options                              *)
(***************************************************************************)
Letters == {"a", "b", "c", "e", "i", "k", "l", "m", "n", "o", "p", "r", "s",
            "t", "v", "x", "A", "H"}

Digits == {"0", "1", "2", "7"}

\* the characters emailUserPart allows besides letters and digits
AtomSpecials == {"!", "#", "$", "%", "&", "'", "*", "+", "-", "/", "=", "?",
                 "^", "_", Grave, "{", "|", "}", "~"}

\* s.split(c)
RECURSIVE Split(_, _)
Split(s, c) ==
    LET hits == {i \in 1..Len(s) : s[i] = c}
    IN IF hits = {} THEN <<s>>
       ELSE LET k == CHOOSE i \in hits : \A j \in hits : i <= j
            IN <<SubSeq(s, 1, k - 1)>> \o Split(SubSeq(s, k + 1, Len(s)), c)

AllIn(s, set) == \A i \in 1..Len(s) : s[i] \in set

IsFQDN(domain) ==
    LET parts == Split(domain, ".")
        tld == parts[Len(parts)]
    IN /\ Len(parts) >= 2
       /\ Len(tld) >= 2
       /\ AllIn(tld, Letters)
       /\ \A i \in 1..Len(parts) :
            /\ Len(parts[i]) >= 1
            /\ Len(parts[i]) <= 63
            /\ AllIn(parts[i], Letters \cup Digits \cup {"-", "_"})
            /\ parts[i][1] # "-"
            /\ parts[i][Len(parts[i])] # "-"

IsEmailUser(user) ==
    IF Len(user) >= 1 /\ user[1] = "\""
    THEN \* quoted local part: user.slice(1, -1) against quotedEmailUser
         AllIn(SubSeq(user, 2, Len(user) - 1),
               (Letters \cup Digits \cup AtomSpecials
                  \cup {" ", "<", ">", "(", ")", ",", ":", ";", "@", "[", "]", "."})
               \ {"\"", "\\"})
    ELSE LET parts == Split(user, ".")
         IN \A i \in 1..Len(parts) :
              Len(parts[i]) >= 1 /\ AllIn(parts[i], Letters \cup Digits \cup AtomSpecials)

\* isEmail on the characters of a string: the part after the last "@" is the
\* domain, the rest the user.
IsEmailChars(s) ==
    LET parts == Split(s, "@")
        domain == parts[Len(parts)]
        ats == {i \in 1..Len(s) : s[i] = "@"}
        user == IF ats = {} THEN <<>>
                ELSE SubSeq(s, 1, (CHOOSE i \in ats : \A j \in ats : j <= i) - 1)
    IN /\ Len(user) <= 64
       /\ Len(domain) <= 254
       /\ IsFQDN(domain)
       /\ IsEmailUser(user)

\* validator.isEmail(v) once assertString has let v through
IsEmail(v) == IsEmailChars(Chars(v))

(***************************************************************************)
(* Configuration, read once from the environment                           *)
(***************************************************************************)
NAME_MAX == 100

SUBJECT_MAX == 200

MESSAGE_MAX == 5000

RATE_MAX == 20

Variants == {"server.js", "part_000", "part_001"}

ContactRoutes == {"POST /contact", "POST /api/contact"}

\* the routes each variant of the server registers
Routes(v) ==
    CASE v = "server.js" ->
           {"GET /health", "POST /contact", "POST /api/contact", "POST /download-resume"}
      [] v = "part_000" -> {"GET /health", "POST /api/contact"}
      [] v = "part_001" -> {"GET /health", "POST /contact", "POST /download-resume"}

\* a || b on configuration values (Undefined: the variable is not set)
JsOr(a, b) == IF Truthy(a) THEN a ELSE b

NoOrigin == "none"

Clients == {"c1", "c2"}

VARIABLES variant, env, smtp, hits, handled, req

vars == <<variant, env, smtp, hits, handled, req>>

(***************************************************************************)
(* Responses                                                               *)
(***************************************************************************)
NoResp == [status |-> 0, ok |-> "absent", error |-> "", fileUrl |-> <<>>, by |-> "nobody"]

Json(status, ok, error) ==
    [status |-> status, ok |-> ok, error |-> error, fileUrl |-> <<>>, by |-> "handler"]

OkTrue == Json(200, "true", "")

\* an answer of a middleware (its body is not the handlers' JSON)
Rejected(status, by) ==
    [status |-> status, ok |-> "absent", error |-> "", fileUrl |-> <<>>, by |-> by]

(***************************************************************************)
(* The middleware chain                                                    *)
(***************************************************************************)
\* the origin callback of cors(): server.js compares with the one configured
\* string, the other two variants look the origin up in the split list
CorsAllows(v, allow, origin) ==
    \/ origin = NoOrigin
    \/ IF v = "server.js"
       THEN Len(allow) = 1 /\ allow[1] = origin
       ELSE \E i \in 1..Len(allow) : allow[i] = origin

\* express.json({limit: "100kb"}): next(err) with 400 or 413, else req.body
JsonVerdict(bodyState) ==
    CASE bodyState = "malformed" -> 400
      [] bodyState = "tooLarge" -> 413
      [] OTHER -> 0

\* app.use(limiter) with no path
LimiterMountedEverywhere(v, route) == TRUE

\* app.use("/api/", limiter), and in server.js also app.use("/contact", limiter)
LimiterMounted(v, route) ==
    IF v = "server.js" THEN route \in ContactRoutes ELSE route = "POST /api/contact"

\* whether the request gets as far as the limiter's place in the chain
BeforeLimiter(v, allow, q) ==
    CorsAllows(v, allow, q.origin) /\ JsonVerdict(q.bodyState) = 0

\* The answer of the chain installed before the routes, NoResp when the
\* request passes it. `count` is the client's hit count including this request.
\* server.js: cors, helmet, json, static, limiter; the other two: helmet,
\* json, (static,) cors, limiter.
Chain(v, allow, q, count) ==
    LET corsErr == ~CorsAllows(v, allow, q.origin)
        jsonErr == JsonVerdict(q.bodyState)
    IN CASE v = "server.js" /\ corsErr -> Rejected(500, "cors")
         [] jsonErr # 0 -> Rejected(jsonErr, "json")
         [] corsErr -> Rejected(500, "cors")
         [] LimiterMounted(v, q.route) /\ count > RATE_MAX -> Rejected(429, "limiter")
         [] OTHER -> NoResp

(***************************************************************************)
(* contactHandler                                                          *)
(***************************************************************************)
\* the test with !message left out
RequiredMissingIgnoresMessage(b) ==
    ~Truthy(b.name) \/ ~Truthy(b.email) \/ ~Truthy(b.subject)

\* if (!name || !email || !subject || !message)
RequiredMissing(b) ==
    ~Truthy(b.name) \/ ~Truthy(b.email) \/ ~Truthy(b.subject) \/ ~Truthy(b.message)

\* the honeypot test placed after the required-fields test
HoneypotAfterRequired(b) == ~RequiredMissing(b) /\ Truthy(b.website)

\* if (website)
Honeypot(b) == Truthy(b.website)

\* the limits taken as >= instead of >
TooLongInclusive(b) ==
    \/ JsLength(b.name) # NoLength /\ JsLength(b.name) >= NAME_MAX
    \/ JsLength(b.subject) # NoLength /\ JsLength(b.subject) >= SUBJECT_MAX
    \/ JsLength(b.message) # NoLength /\ JsLength(b.message) >= MESSAGE_MAX

\* name.length > 100 || subject.length > 200 || message.length > 5000
TooLong(b) ==
    \/ JsGreater(JsLength(b.name), NAME_MAX)
    \/ JsGreater(JsLength(b.subject), SUBJECT_MAX)
    \/ JsGreater(JsLength(b.message), MESSAGE_MAX)

Tpl(s) == [kind |-> "template", unit |-> <<s>>, reps |-> 1, num |-> 0]

Heading(v) == IF v = "server.js" THEN "Hii there!!!" ELSE "New Portfolio Contact"

\* the html template literal: fixed pieces and the four escaped values
HtmlBody(v, b) ==
    << Tpl("<div style=\"font-family:Arial,Helvetica,sans-serif;line-height:1.6\"><h2>"),
       Tpl(Heading(v)),
       Tpl("</h2><p><strong>Name:</strong> "), Escape(b.name),
       Tpl("</p><p><strong>Email:</strong> "), Escape(b.email),
       Tpl("</p><p><strong>Subject:</strong> "), Escape(b.subject),
       Tpl("</p><p><strong>Message:</strong></p><pre style=\"white-space:pre-wrap;background:#f7f7f9;padding:12px;border-radius:6px;border:1px solid #eee\">"),
       Escape(b.message),
       Tpl("</pre></div>") >>

NoMail == [from |-> Undefined, to |-> Undefined, replyTo |-> Undefined, subject |-> <<>>, html |-> <<>>]

\* the argument of transporter.sendMail in contactHandler
ContactMail(v, e, b) ==
    [from |-> JsOr(e.FROM_EMAIL, e.SMTP_USER),
     to |-> JsOr(e.TO_EMAIL, e.SMTP_USER),
     replyTo |-> b.email,
     subject |-> <<Tpl("Portfolio Contact: "), b.subject>>,
     html |-> HtmlBody(v, b)]

Respond(resp) == [kind |-> "respond", resp |-> resp, mail |-> NoMail, logged |-> ""]

Send(mail) == [kind |-> "send", resp |-> NoResp, mail |-> mail, logged |-> ""]

\* catch (err) of contactHandler
\* a catch that answers with the error it caught
ContactCatchLeaks(err) == Json(500, "false", err)

ContactCatch(err) == Json(500, "false", "Failed to send message.")

Thrown(err) == [kind |-> "respond", resp |-> ContactCatch(err), mail |-> NoMail, logged |-> err]

\* contactHandler up to its await: what it answers at once, or the mail it
\* hands to the transport. isEmail and escape throw a TypeError on a value
\* that is not a string, which the handler's catch turns into its 500.
ContactSync(v, e, b) ==
    CASE Honeypot(b) -> Respond(OkTrue)
      [] RequiredMissing(b) -> Respond(Json(400, "false", "All fields are required."))
      [] AssertStringThrows(b.email) -> Thrown("TypeError")
      [] ~IsEmail(b.email) -> Respond(Json(400, "false", "Invalid email."))
      [] TooLong(b) -> Respond(Json(400, "false", "Input too long."))
      [] AssertStringThrows(b.name) \/ AssertStringThrows(b.subject)
           \/ AssertStringThrows(b.message) -> Thrown("TypeError")
      [] OTHER -> Send(ContactMail(v, e, b))

(***************************************************************************)
(* POST /download-resume and GET /health                                   *)
(***************************************************************************)
ResumeMail(e) ==
    [from |-> JsOr(e.FROM_EMAIL, e.SMTP_USER),
     to |-> JsOr(e.TO_EMAIL, e.SMTP_USER),
     replyTo |-> Undefined,
     subject |-> <<Tpl("Resume Downloaded")>>,
     html |-> <<Tpl("<p>Someone just downloaded your resume at <b>"), Tpl("now"),
                Tpl("</b>.</p>")>>]

ResumeOk(q) ==
    [status |-> 200, ok |-> "absent", error |-> "",
     fileUrl |-> <<q.protocol, "://", q.host, "/Karthi_B.pdf">>, by |-> "handler"]

ResumeCatch(err) == Json(500, "false", "Failed to send resume notification.")

\* (_, res) => res.json({ ok: true })
HealthHandler == OkTrue

\* what the route's handler does with a request that passed the chain
Dispatch(v, e, q) ==
    CASE q.route = "GET /health" -> Respond(HealthHandler)
      [] q.route \in ContactRoutes -> ContactSync(v, e, q.body)
      [] OTHER -> Send(ResumeMail(e))

\* the response once the awaited sendMail has settled
AfterSend(q, outcome) ==
    IF q.route \in ContactRoutes
    THEN IF outcome = "resolved" THEN OkTrue ELSE ContactCatch(outcome)
    ELSE IF outcome = "resolved" THEN ResumeOk(q) ELSE ResumeCatch(outcome)

(***************************************************************************)
(* Requests in flight                                                      *)
(***************************************************************************)
MaxReqs == 2

Slots == 1..MaxReqs

EmptyBody ==
    [name |-> Undefined, email |-> Undefined, subject |-> Undefined,
     message |-> Undefined, website |-> Undefined]

Idle ==
    [pc |-> "idle", client |-> "c1", route |-> "GET /health", origin |-> NoOrigin,
     bodyState |-> "none", body |-> EmptyBody, protocol |-> "http", host |-> "",
     reached |-> FALSE, resp |-> NoResp, calls |-> 0, mail |-> NoMail,
     result |-> "none", logged |-> "", hung |-> FALSE, during |-> FALSE]

\* some other request's sendMail is pending and stalled
OtherStalled(r) == \E p \in Slots \ {r} : req[p].pc = "awaiting" /\ req[p].hung

\* One request, from the socket to its response or to its await. P names the
\* inputs to draw from: clients, origins, bodyStates, bodies, hosts, and cap,
\* the bound on how far a window's counters are followed. Only the contact
\* handler reads req.body, so the fields are drawn for its routes alone, and
\* the slot keeps them only when the request got to its handler.
Arrive(r, P) ==
    /\ req[r].pc = "idle"
    /\ \E c \in P.clients, route \in Routes(variant), origin \in P.origins,
          bs \in P.bodyStates, h \in P.hosts :
         \E b \in (IF bs = "json" /\ route \in ContactRoutes THEN P.bodies ELSE {EmptyBody}) :
           LET q == [client |-> c, route |-> route, origin |-> origin, bodyState |-> bs,
                     body |-> b, protocol |-> "http", host |-> h]
               counted == BeforeLimiter(variant, env.ALLOW_ORIGIN, q)
                            /\ LimiterMounted(variant, route)
               count == IF counted THEN hits[c] + 1 ELSE hits[c]
               early == Chain(variant, env.ALLOW_ORIGIN, q, count)
               passed == early = NoResp
               d == Dispatch(variant, env, q)
           IN /\ hits[c] < P.cap
              /\ handled[c] < P.cap
              /\ hits' = [hits EXCEPT ![c] = count]
              /\ handled' = [handled EXCEPT ![c] =
                               IF passed /\ route \in ContactRoutes THEN @ + 1 ELSE @]
              /\ req' = [req EXCEPT ![r] =
                    [pc |-> IF passed /\ d.kind = "send" THEN "awaiting" ELSE "done",
                     client |-> c, route |-> route, origin |-> origin, bodyState |-> bs,
                     body |-> IF passed THEN b ELSE EmptyBody,
                     protocol |-> "http", host |-> h,
                     reached |-> passed,
                     resp |-> IF passed THEN d.resp ELSE early,
                     calls |-> IF passed /\ d.kind = "send" THEN 1 ELSE 0,
                     mail |-> IF passed THEN d.mail ELSE NoMail,
                     result |-> "none",
                     logged |-> IF passed THEN d.logged ELSE "",
                     hung |-> FALSE,
                     during |-> OtherStalled(r)]]
    /\ UNCHANGED <<variant, env, smtp>>

\* a transport that answers its calls one at a time, in order
CanSettleInOrder(r) ==
    ~req[r].hung /\ \A p \in Slots : p < r => req[p].pc # "awaiting"

\* each sendMail call is a promise of its own
CanSettle(r) == ~req[r].hung

\* The awaited sendMail resolves, or rejects with one of errs; the handler
\* answers (and logs the error).
Settle(r, errs) ==
    /\ req[r].pc = "awaiting"
    /\ CanSettle(r)
    /\ \E outcome \in {"resolved"} \cup errs :
         req' = [req EXCEPT ![r] =
                   [req[r] EXCEPT !.pc = "done", !.result = outcome,
                                  !.resp = AfterSend(req[r], outcome),
                                  !.logged = IF outcome = "resolved" THEN "" ELSE outcome]]
    /\ UNCHANGED <<variant, env, smtp, hits, handled>>

\* The transport stops answering for one pending call: it never settles.
Stall(r) ==
    /\ req[r].pc = "awaiting"
    /\ ~req[r].hung
    /\ req' = [req EXCEPT ![r].hung = TRUE]
    /\ UNCHANGED <<variant, env, smtp, hits, handled>>

\* The response has been written: nothing of the request is kept.
Close(r) ==
    /\ req[r].pc = "done"
    /\ req' = [req EXCEPT ![r] = Idle]
    /\ UNCHANGED <<variant, env, smtp, hits, handled>>

\* The limiter's 60 second window ends: every counter starts again.
WindowReset ==
    /\ \E c \in Clients : hits[c] > 0 \/ handled[c] > 0
    /\ hits' = [c \in Clients |-> 0]
    /\ handled' = [c \in Clients |-> 0]
    /\ UNCHANGED <<variant, env, smtp, req>>

\* transporter.verify() settles (it may also never do so)
VerifySettles ==
    /\ smtp = "pending"
    /\ smtp' \in {"ready", "failed"}
    /\ UNCHANGED <<variant, env, hits, handled, req>>

InitOf(variants, envs) ==
    /\ variant \in variants
    /\ env \in envs
    /\ smtp = "pending"
    /\ hits = [c \in Clients |-> 0]
    /\ handled = [c \in Clients |-> 0]
    /\ req = [r \in Slots |-> Idle]

(***************************************************************************)
(* Inputs                                                                  *)
(***************************************************************************)
Site == "https://site"

DevSite == "http://localhost"

EvilSite == "https://evil"

SmtpUser == Str(<<"u", "@", "s", ".", "i", "o">>)

FromAddr == Str(<<"f", "@", "s", ".", "i", "o">>)

ToAddr == Str(<<"t", "@", "s", ".", "i", "o">>)

Hosts == {"api.site"}

NameSamples ==
    { Undefined,
      Str(<<"<", "A", "&", ">">>),
      Rep(<<"n">>, NAME_MAX),
      Rep(<<"n">>, NAME_MAX + 1),
      Num(7) }

EmailSamples ==
    { Str(<<>>),
      Str(<<"o", "'", "k", "@", "b", ".", "c", "o">>),
      Str(<<"\"", "<", "b", ">", "\"", "@", "b", ".", "c", "o">>),
      Str(<<"n", "o", "t", "-", "a", "n", "-", "e", "m", "a", "i", "l">>),
      Num(7) }

SubjectSamples ==
    { Undefined,
      Str(<<"H", "i", "/">>),
      Rep(<<"s", ">">>, SUBJECT_MAX \div 2),
      Rep(<<"s">>, SUBJECT_MAX + 1) }

MessageSamples ==
    { Str(<<>>),
      Str(<<"<", "s", "c", "r", "i", "p", "t", ">", "x", "<", "/", "s", "c", "r", "i",
            "p", "t", ">">>),
      Rep(<<"<", "m", ">", "'", "\"">>, MESSAGE_MAX \div 5),
      Rep(<<"m">>, MESSAGE_MAX + 1) }

WebsiteSamples ==
    {Undefined, Str(<<>>), Str(<<"h", "t", "t", "p", ":", "/", "/", "x">>), Num(1)}

AllBodies ==
    [name : NameSamples, email : EmailSamples, subject : SubjectSamples,
     message : MessageSamples, website : WebsiteSamples]

ValidBody ==
    [name |-> Str(<<"A", "v", "a">>),
     email |-> Str(<<"a", "v", "a", "@", "e", "x", "a", "m", "p", "l", "e", ".", "c", "o", "m">>),
     subject |-> Str(<<"H", "i">>),
     message |-> Str(<<"H", "e", "l", "l", "o">>),
     website |-> Undefined]

SpamBody == [ValidBody EXCEPT !.website = Str(<<"x">>)]

BadEmailBody == [ValidBody EXCEPT !.email = Str(<<"n", "o", "p", "e">>)]

TransportErrors == {"ECONNREFUSED 127.0.0.1:465", "EAUTH 535 bad password for u@s.io"}

(***************************************************************************)
(* Spec: one request after another, every combination of the sample fields *)
(***************************************************************************)
SeqHitCap == 1

SeqProfile ==
    [clients |-> {"c1"}, origins |-> {NoOrigin, EvilSite}, bodyStates |-> {"json", "malformed"},
     hosts |-> Hosts, bodies |-> AllBodies, cap |-> SeqHitCap]

SeqEnvs ==
    [FROM_EMAIL : {Undefined, FromAddr}, TO_EMAIL : {Undefined, ToAddr},
     SMTP_USER : {SmtpUser}, ALLOW_ORIGIN : {<<Site>>}]

Init == InitOf(Variants, SeqEnvs)

Next ==
    \/ Arrive(1, SeqProfile)
    \/ Settle(1, TransportErrors)
    \/ Close(1)
    \/ WindowReset

Spec == Init /\ [][Next]_vars

(***************************************************************************)
(* What the statements below say of a submitted value, in their own terms  *)
(***************************************************************************)
TextLength(v) == Len(v.unit) * v.reps

MissingOrEmpty(v) == v.kind = "undefined" \/ (v.kind = "string" /\ TextLength(v) = 0)

HasHoneypotValue(b) == ~MissingOrEmpty(b.website)

AllFourPresent(b) ==
    /\ ~MissingOrEmpty(b.name)
    /\ ~MissingOrEmpty(b.email)
    /\ ~MissingOrEmpty(b.subject)
    /\ ~MissingOrEmpty(b.message)

ValidEmailValue(v) == v.kind = "string" /\ IsEmail(v)

Oversized(b) ==
    \/ b.name.kind = "string" /\ TextLength(b.name) > 100
    \/ b.subject.kind = "string" /\ TextLength(b.subject) > 200
    \/ b.message.kind = "string" /\ TextLength(b.message) > 5000

PassesValidation(b) ==
    ~HasHoneypotValue(b) /\ AllFourPresent(b) /\ ValidEmailValue(b.email) /\ ~Oversized(b)

\* the request in slot r got to the contact handler
HandledContact(r) == req[r].reached /\ req[r].route \in ContactRoutes

Is(resp, status, ok, error) ==
    /\ resp.status = status
    /\ resp.ok = ok
    /\ resp.error = error
    /\ resp.fileUrl = <<>>
    /\ resp.by = "handler"

(***************************************************************************)
(* C1: a contact request with a present, non-empty website field is        *)
(* answered 200 {ok:true} and no mail is dispatched, whatever the other    *)
(* fields are.                                                             *)
(***************************************************************************)
C1_HoneypotSilentSuccess ==
    \A r \in Slots :
      HandledContact(r) /\ HasHoneypotValue(req[r].body)
        => /\ req[r].pc = "done"
           /\ Is(req[r].resp, 200, "true", "")
           /\ req[r].calls = 0

C1_Witness ==
    \E r \in Slots :
      /\ HandledContact(r)
      /\ HasHoneypotValue(req[r].body)
      /\ MissingOrEmpty(req[r].body.name)
      /\ req[r].body.email.kind = "number"
      /\ req[r].body.message.kind = "string"
      /\ TextLength(req[r].body.message) > 5000
      /\ req[r].resp.status = 200

(***************************************************************************)
(* C2: with no honeypot value, a contact request in which one of name,     *)
(* email, subject, message is missing or empty is answered 400 "All fields *)
(* are required." and no mail is dispatched.                               *)
(***************************************************************************)
C2_RequiredFields ==
    \A r \in Slots :
      HandledContact(r) /\ ~HasHoneypotValue(req[r].body) /\ ~AllFourPresent(req[r].body)
        => /\ req[r].pc = "done"
           /\ Is(req[r].resp, 400, "false", "All fields are required.")
           /\ req[r].calls = 0

C2_Witness ==
    \E r \in Slots :
      /\ HandledContact(r)
      /\ ~HasHoneypotValue(req[r].body)
      /\ ~MissingOrEmpty(req[r].body.name)
      /\ ValidEmailValue(req[r].body.email)
      /\ req[r].body.subject.kind = "string"
      /\ TextLength(req[r].body.subject) > 200
      /\ MissingOrEmpty(req[r].body.message)
      /\ req[r].resp.status = 400

(***************************************************************************)
(* C3: with no honeypot value and all four fields present and non-empty, a *)
(* request whose email value is not a valid email address (whatever value  *)
(* the body carries there) is answered 400 "Invalid email." and no mail is *)
(* dispatched, before the length rule and never as a 500.                  *)
(***************************************************************************)
C3_InvalidEmailRejected ==
    \A r \in Slots :
      /\ HandledContact(r)
      /\ ~HasHoneypotValue(req[r].body)
      /\ AllFourPresent(req[r].body)
      /\ ~ValidEmailValue(req[r].body.email)
      => /\ req[r].pc = "done"
         /\ Is(req[r].resp, 400, "false", "Invalid email.")
         /\ req[r].calls = 0

(***************************************************************************)
(* C4: with no honeypot value, all four fields present and a valid email,  *)
(* the request is answered 400 "Input too long." with no mail dispatched   *)
(* exactly when the name is longer than 100, the subject longer than 200   *)
(* or the message longer than 5000 characters; texts of exactly 100, 200   *)
(* and 5000 characters are accepted and handed to the transport.           *)
(***************************************************************************)
AtTheLimits(b) ==
    /\ b.name.kind = "string" /\ TextLength(b.name) = 100
    /\ b.subject.kind = "string" /\ TextLength(b.subject) = 200
    /\ b.message.kind = "string" /\ TextLength(b.message) = 5000

C4_TooLongExactly ==
    \A r \in Slots :
      /\ HandledContact(r)
      /\ ~HasHoneypotValue(req[r].body)
      /\ AllFourPresent(req[r].body)
      /\ ValidEmailValue(req[r].body.email)
      => /\ Oversized(req[r].body)
              <=> Is(req[r].resp, 400, "false", "Input too long.")
         /\ Oversized(req[r].body) => req[r].pc = "done" /\ req[r].calls = 0
         /\ AtTheLimits(req[r].body)
              => /\ req[r].calls = 1
                 /\ req[r].mail.replyTo = req[r].body.email
                 /\ req[r].resp.status # 400

C4_Witness ==
    \E r \in Slots :
      /\ HandledContact(r)
      /\ ~HasHoneypotValue(req[r].body)
      /\ ValidEmailValue(req[r].body.email)
      /\ AtTheLimits(req[r].body)
      /\ req[r].result = "resolved"
      /\ req[r].resp.status = 200

(***************************************************************************)
(* C5: a contact request that passes every validation rule and has no      *)
(* honeypot value makes exactly one sendMail call (never none, never a     *)
(* second, also when the call fails), with replyTo the submitted email,    *)
(* subject "Portfolio Contact: " followed by the submitted subject, from   *)
(* and to taken from the configuration; the answer is 200 {ok:true}        *)
(* exactly when the call succeeds.                                         *)
(***************************************************************************)
C5_ExactlyOneDispatch ==
    \A r \in Slots :
      HandledContact(r) /\ PassesValidation(req[r].body)
        => /\ req[r].calls = 1
           /\ req[r].mail.replyTo = req[r].body.email
           /\ req[r].mail.subject = <<Tpl("Portfolio Contact: "), req[r].body.subject>>
           /\ req[r].mail.from
                = (IF env.FROM_EMAIL.kind = "string" THEN env.FROM_EMAIL ELSE env.SMTP_USER)
           /\ req[r].mail.to
                = (IF env.TO_EMAIL.kind = "string" THEN env.TO_EMAIL ELSE env.SMTP_USER)
           /\ req[r].pc = "done"
                => (Is(req[r].resp, 200, "true", "") <=> req[r].result = "resolved")

(***************************************************************************)
(* C6: in every dispatched contact mail the HTML body holds name, email,   *)
(* subject and message in escaped form only: no < > & " ' of a submitted   *)
(* value is left as it was, and everything else is the fixed template.     *)
(***************************************************************************)
Entities ==
    { <<"&", <<"&", "a", "m", "p", ";">> >>,
      <<"\"", <<"&", "q", "u", "o", "t", ";">> >>,
      <<"'", <<"&", "#", "x", "2", "7", ";">> >>,
      <<"<", <<"&", "l", "t", ";">> >>,
      <<">", <<"&", "g", "t", ";">> >>,
      <<"/", <<"&", "#", "x", "2", "F", ";">> >>,
      <<"\\", <<"&", "#", "x", "5", "C", ";">> >>,
      <<Grave, <<"&", "#", "9", "6", ";">> >> }

EntityAt(u, i) ==
    {e \in Entities : i + Len(e[2]) - 1 <= Len(u) /\ SubSeq(u, i, i + Len(e[2]) - 1) = e[2]}

NoRawSpecial(u) ==
    \A i \in 1..Len(u) :
      /\ u[i] \notin {"<", ">", "\"", "'"}
      /\ u[i] = "&" => EntityAt(u, i) # {}

\* what a reader of the HTML sees: every entity read back as its character
RECURSIVE Unescape(_)
Unescape(u) ==
    IF u = <<>> THEN <<>>
    ELSE IF EntityAt(u, 1) # {}
         THEN LET e == CHOOSE e \in EntityAt(u, 1) : TRUE
              IN <<e[1]>> \o Unescape(SubSeq(u, Len(e[2]) + 1, Len(u)))
         ELSE <<Head(u)>> \o Unescape(Tail(u))

EscapedFormOf(seg, v) ==
    /\ seg.kind = "string"
    /\ seg.reps = v.reps
    /\ NoRawSpecial(seg.unit)
    /\ Unescape(seg.unit) = v.unit

C6_HtmlEscaped ==
    \A r \in Slots :
      HandledContact(r) /\ req[r].calls >= 1
        => LET h == req[r].mail.html
               b == req[r].body
           IN /\ Len(h) = 11
              /\ \A i \in {1, 2, 3, 5, 7, 9, 11} : h[i].kind = "template"
              /\ EscapedFormOf(h[4], b.name)
              /\ EscapedFormOf(h[6], b.email)
              /\ EscapedFormOf(h[8], b.subject)
              /\ EscapedFormOf(h[10], b.message)

HasChar(v, c) == v.kind = "string" /\ \E i \in 1..Len(v.unit) : v.unit[i] = c

C6_Witness ==
    \E r \in Slots :
      /\ HandledContact(r)
      /\ req[r].calls = 1
      /\ HasChar(req[r].body.name, "&")
      /\ HasChar(req[r].body.email, "'")
      /\ HasChar(req[r].body.subject, "/")
      /\ HasChar(req[r].body.message, "<")
      /\ HasChar(req[r].mail.html[10], "&")

(***************************************************************************)
(* C7: when sendMail fails the answer is 500 with a fixed body, the same   *)
(* for every transport error: "Failed to send message." for the contact    *)
(* handler, "Failed to send resume notification." and no fileUrl for       *)
(* POST /download-resume; the error itself goes to the log only.           *)
(***************************************************************************)
C7_GenericFailure ==
    \A r \in Slots :
      req[r].pc = "done" /\ req[r].result \in TransportErrors
        => /\ req[r].logged = req[r].result
           /\ IF req[r].route \in ContactRoutes
              THEN Is(req[r].resp, 500, "false", "Failed to send message.")
              ELSE Is(req[r].resp, 500, "false", "Failed to send resume notification.")

C7_Witness ==
    \E r \in Slots :
      /\ req[r].pc = "done"
      /\ req[r].route = "POST /download-resume"
      /\ req[r].result = "EAUTH 535 bad password for u@s.io"
      /\ req[r].resp.status = 500
      /\ req[r].logged = "EAUTH 535 bad password for u@s.io"

(***************************************************************************)
(* SpecHealth: the chain before GET /health, a window's counters followed  *)
(* past the limit, and transporter.verify() settling or not                *)
(***************************************************************************)
WindowCap == 22

HealthProfile ==
    [clients |-> {"c1"}, origins |-> {NoOrigin, Site, DevSite, EvilSite},
     bodyStates |-> {"none", "json", "malformed", "tooLarge"}, hosts |-> Hosts,
     bodies |-> {ValidBody, SpamBody}, cap |-> WindowCap]

HealthEnvs ==
    [FROM_EMAIL : {Undefined}, TO_EMAIL : {Undefined}, SMTP_USER : {SmtpUser},
     ALLOW_ORIGIN : {<<>>, <<Site>>, <<Site, DevSite>>}]

InitHealth == InitOf(Variants, HealthEnvs)

NextHealth ==
    \/ Arrive(1, HealthProfile)
    \/ Settle(1, {"ECONNREFUSED 127.0.0.1:465"})
    \/ Close(1)
    \/ WindowReset
    \/ VerifySettles

SpecHealth == InitHealth /\ [][NextHealth]_vars

(***************************************************************************)
(* C8 as stated: every GET /health request is answered 200 {ok:true},      *)
(* whatever the SMTP state, the rate-limit counters and the request's      *)
(* headers (Origin included) are.                                          *)
(***************************************************************************)
C8_HealthAlways200 ==
    \A r \in Slots :
      req[r].pc = "done" /\ req[r].route = "GET /health"
        => Is(req[r].resp, 200, "true", "")

(***************************************************************************)
(* C8 amended: every GET /health request whose Origin is absent or allowed *)
(* by the CORS configuration, and whose body (if any) the JSON body parser *)
(* accepts, is answered 200 {ok:true}, whatever the SMTP state and the     *)
(* rate-limit counters are.                                                *)
(***************************************************************************)
C8_HealthWhenAdmitted ==
    \A r \in Slots :
      /\ req[r].pc = "done"
      /\ req[r].route = "GET /health"
      /\ CorsAllows(variant, env.ALLOW_ORIGIN, req[r].origin)
      /\ req[r].bodyState \in {"none", "json"}
      => Is(req[r].resp, 200, "true", "")

C8_Witness ==
    \E r \in Slots :
      /\ req[r].pc = "done"
      /\ req[r].route = "GET /health"
      /\ req[r].origin = Site
      /\ req[r].resp.status = 200
      /\ smtp = "failed"
      /\ hits[req[r].client] > RATE_MAX

(***************************************************************************)
(* SpecRate: two clients, a window's counters followed past the limit      *)
(***************************************************************************)
RateProfile ==
    [clients |-> Clients, origins |-> {NoOrigin}, bodyStates |-> {"json"}, hosts |-> Hosts,
     bodies |-> {ValidBody, SpamBody}, cap |-> WindowCap]

RateEnvs ==
    [FROM_EMAIL : {Undefined}, TO_EMAIL : {Undefined}, SMTP_USER : {SmtpUser},
     ALLOW_ORIGIN : {<<Site>>}]

InitRate == InitOf(Variants, RateEnvs)

NextRate ==
    \/ Arrive(1, RateProfile)
    \/ Settle(1, {"ECONNREFUSED 127.0.0.1:465"})
    \/ Close(1)
    \/ WindowReset

SpecRate == InitRate /\ [][NextRate]_vars

(***************************************************************************)
(* C9: in one window of the limiter at most 20 requests of a client get to *)
(* the contact handler, on every path the handler is mounted at.           *)
(***************************************************************************)
C9_AtMostTwentyHandled == \A c \in Clients : handled[c] <= 20

(***************************************************************************)
(* SpecConc: requests in flight together; a pending sendMail may stall for *)
(* ever, and one that has not stalled settles                              *)
(***************************************************************************)
ConcHitCap == 2

ConcProfile ==
    [clients |-> {"c1"}, origins |-> {NoOrigin}, bodyStates |-> {"json"}, hosts |-> Hosts,
     bodies |-> {ValidBody, BadEmailBody}, cap |-> ConcHitCap]

InitConc == InitOf(Variants, RateEnvs)

NextConc ==
    \/ \E r \in Slots : Arrive(r, ConcProfile)
    \/ \E r \in Slots : Settle(r, {"ECONNREFUSED 127.0.0.1:465"})
    \/ \E r \in Slots : Stall(r)
    \/ \E r \in Slots : Close(r)
    \/ WindowReset

SpecConc ==
    /\ InitConc
    /\ [][NextConc]_vars
    /\ \A r \in Slots : WF_vars(Settle(r, {"ECONNREFUSED 127.0.0.1:465"}))

(***************************************************************************)
(* C10: a sendMail call that never returns holds up its own request only:  *)
(* every other request whose call has not stalled gets its response, and   *)
(* two requests with the same input and the same dispatch result get the   *)
(* same response and make the same number of calls, whatever else was in   *)
(* flight when they were handled.                                          *)
(***************************************************************************)
SameOutcome(r, p) ==
    /\ req[r].resp = req[p].resp
    /\ req[r].calls = req[p].calls
    /\ req[r].mail = req[p].mail

====
